---- MODULE Spec2Model ----
(***************************************************************************)
(* Conway's Game of Life on a sparse dictionary (life.py).                 *)
(*                                                                         *)
(* The board is a Python dict subclass: an insertion-ordered list of       *)
(* (key, value) entries, where a key is a coordinate <<x, y>>.  Reading an *)
(* absent key goes through __missing__.  play_game() is modelled at the    *)
(* granularity of its loop iterations, so that the intermediate states of  *)
(* one generation are states of the model.                                 *)
(***************************************************************************)
EXTENDS Integers, Sequences, FiniteSets, TLC

\* ---------------------------------------------------------------- bounds
MaxCells == 5
MaxGen == 3
MaxGenPentomino == 24
MaxShift == 2
MaxFrames == 3
MaxFail == 1

\* ------------------------------------------------------- the dictionary
Entry(key, v) == [k |-> key, v |-> v]

Keys(d) == [j \in 1..Len(d) |-> d[j].k]

KeySet(d) == {d[j].k : j \in 1..Len(d)}

Contains(d, key) == \E j \in 1..Len(d) : d[j].k = key

ValueOf(d, key) == d[CHOOSE j \in 1..Len(d) : d[j].k = key].v

\* A __missing__ that stores the default, as collections.defaultdict does.
MissingStores(d, key) == [val |-> 0, dict |-> Append(d, Entry(key, 0))]

\* Life.__missing__: the value for an absent key is 0 and nothing is stored.
Missing(d, key) == [val |-> 0, dict |-> d]

\* A lookup that treats the board as an array starting at (0, 0).
GetItemClipped(d, key) ==
    IF key[1] < 0 \/ key[2] < 0 THEN [val |-> 0, dict |-> d]
    ELSE IF Contains(d, key) THEN [val |-> ValueOf(d, key), dict |-> d]
                             ELSE Missing(d, key)

\* self[key]: the stored value, or the result of __missing__.
GetItem(d, key) ==
    IF Contains(d, key) THEN [val |-> ValueOf(d, key), dict |-> d]
                        ELSE Missing(d, key)

\* del self[key]
DelItem(d, key) == SelectSeq(d, LAMBDA e : e.k # key)

\* self[key] = v : an existing key keeps its position, a new key goes last.
SetItem(d, key, v) ==
    IF Contains(d, key)
    THEN [j \in 1..Len(d) |-> IF d[j].k = key THEN Entry(key, v) ELSE d[j]]
    ELSE Append(d, Entry(key, v))

\* The coordinates whose stored value is truthy.
LiveSet(d) == {d[j].k : j \in {n \in 1..Len(d) : d[n].v # 0}}

\* ----------------------------------------------------------- check_cell
XCoords(x) == <<x - 1, x, x + 1>>

YCoords(y) == <<y - 1, y, y + 1>>

\* A neighbourhood without the diagonals.
BlockOrthogonal(x, y) ==
    <<<<x - 1, y>>, <<x, y - 1>>, <<x, y>>, <<x, y + 1>>, <<x + 1, y>>>>

\* The nested loops "for x_coord in x_coords: for y_coord in y_coords".
Block(x, y) ==
    [j \in 1..9 |-> <<XCoords(x)[((j - 1) \div 3) + 1],
                      YCoords(y)[((j - 1) % 3) + 1]>>]

\* total += self[x_coord, y_coord] over the block, threading the dictionary
\* through every read.
RECURSIVE SumBlock(_, _, _, _)
SumBlock(d, coords, j, total) ==
    IF j > Len(coords) THEN [total |-> total, dict |-> d]
    ELSE LET r == GetItem(d, coords[j])
         IN  SumBlock(r.dict, coords, j + 1, total + r.val)

\* The rule with the thresholds of a neighbour count that excludes the cell.
RuleSelfExcluded(total, cell, c) ==
    IF total = 3 /\ cell = 0 THEN [live |-> <<c>>, dead |-> <<>>]
    ELSE IF total < 2 \/ (total > 3 /\ cell # 0)
         THEN [live |-> <<>>, dead |-> <<c>>]
         ELSE [live |-> <<>>, dead |-> <<>>]

\* The if / elif chain of check_cell.
Rule(total, cell, c) ==
    IF total = 3 /\ cell = 0 THEN [live |-> <<c>>, dead |-> <<>>]
    ELSE IF total < 3 \/ (total > 4 /\ cell # 0)
         THEN [live |-> <<>>, dead |-> <<c>>]
         ELSE [live |-> <<>>, dead |-> <<>>]

CheckCell(d, x, y) ==
    LET s == SumBlock(d, Block(x, y), 1, 0)
        r == GetItem(s.dict, <<x, y>>)
        t == Rule(s.total, r.val, <<x, y>>)
    IN  [live |-> t.live, dead |-> t.dead, dict |-> r.dict]

\* ---------------------------------------------------------- queue_cells
\* "for x, y in self.keys(): ... cells.append(...)" over the keys lo..hi, in
\* order.  The iteration is split in halves (first half, then second half),
\* which visits the keys in the same order as the loop does.
RECURSIVE QueueFrom(_, _, _)
QueueFrom(ks, lo, hi) ==
    IF lo > hi THEN <<>>
    ELSE IF lo = hi THEN Block(ks[lo][1], ks[lo][2])
    ELSE LET mid == (lo + hi) \div 2
         IN  QueueFrom(ks, lo, mid) \o QueueFrom(ks, mid + 1, hi)

\* A queue of the live cells only, without their neighbours.
QueueCellsLiveOnly(d) == Keys(d)

QueueCells(d) == QueueFrom(Keys(d), 1, Len(d))

\* ------------------------------------------------------------ play_game
\* A death that stores 0 instead of deleting the key.
ApplyDeadZero(d, c) ==
    LET r == GetItem(d, c)
    IN  IF r.val # 0 THEN SetItem(r.dict, c, 0) ELSE r.dict

\* A loop over dead that deletes without the "if self[x, y]" test.
DeleteAlways(d, c) == TRUE

\* The test "if self[x, y]" of the loop over dead.
DeleteAttempted(d, c) == GetItem(d, c).val # 0

\* del self[key] raises KeyError when the key is not stored.
KeyError(d, key) == ~Contains(d, key)

\* One iteration of "for x, y in dead: if self[x, y]: del self[x, y]".
ApplyDead(d, c) ==
    LET r == GetItem(d, c)
    IN  IF DeleteAttempted(d, c) THEN DelItem(r.dict, c) ELSE r.dict

\* The iteration ends in a KeyError instead.
DeadRaises(d, c) == DeleteAttempted(d, c) /\ KeyError(GetItem(d, c).dict, c)

\* One iteration of "for x, y in live: self[x, y] = 1".
ApplyLive(d, c) == SetItem(d, c, 1)

\* An iteration that applies the transition of the cell at once.
CheckOneInPlace(acc, c) ==
    LET r == CheckCell(acc.dict, c[1], c[2])
    IN  [live |-> acc.live \o r.live,
         dead |-> acc.dead \o r.dead,
         dict |-> IF r.live # <<>> THEN ApplyLive(r.dict, c)
                  ELSE IF r.dead # <<>> THEN ApplyDead(r.dict, c)
                  ELSE r.dict]

\* One iteration of "for x, y in self.queue_cells()": check_cell, live +=,
\* dead +=.
CheckOne(acc, c) ==
    LET r == CheckCell(acc.dict, c[1], c[2])
    IN  [live |-> acc.live \o r.live,
         dead |-> acc.dead \o r.dead,
         dict |-> r.dict]

\* The three loops of play_game over the elements lo..hi of a list, each
\* split in halves that are run one after the other.  The result of the
\* first half is evaluated (the test on it is always true) before the second
\* half starts, as in the loop, which keeps the evaluation depth logarithmic.
RECURSIVE CheckAll(_, _, _, _)
CheckAll(acc, cs, lo, hi) ==
    IF lo > hi THEN acc
    ELSE IF lo = hi THEN CheckOne(acc, cs[lo])
    ELSE LET mid == (lo + hi) \div 2
             first == CheckAll(acc, cs, lo, mid)
         IN  IF Len(first.dict) >= 0 THEN CheckAll(first, cs, mid + 1, hi)
                                     ELSE first

RECURSIVE DeadAll(_, _, _, _)
DeadAll(d, cs, lo, hi) ==
    IF lo > hi THEN d
    ELSE IF lo = hi THEN ApplyDead(d, cs[lo])
    ELSE LET mid == (lo + hi) \div 2
             first == DeadAll(d, cs, lo, mid)
         IN  IF Len(first) >= 0 THEN DeadAll(first, cs, mid + 1, hi)
                                ELSE first

RECURSIVE LiveAll(_, _, _, _)
LiveAll(d, cs, lo, hi) ==
    IF lo > hi THEN d
    ELSE IF lo = hi THEN ApplyLive(d, cs[lo])
    ELSE LET mid == (lo + hi) \div 2
             first == LiveAll(d, cs, lo, mid)
         IN  IF Len(first) >= 0 THEN LiveAll(first, cs, mid + 1, hi)
                                ELSE first

\* play_game() as a function of the dictionary it is called on.
PlayGame(d) ==
    LET q == QueueCells(d)
        t == CheckAll([live |-> <<>>, dead |-> <<>>, dict |-> d],
                      q, 1, Len(q))
        killed == DeadAll(t.dict, t.dead, 1, Len(t.dead))
    IN  LiveAll(killed, t.live, 1, Len(t.live))

\* ---------------------------------------------------------------- seeds
Less(a, b) == a[1] < b[1] \/ (a[1] = b[1] /\ a[2] < b[2])

MinOf(S) == CHOOSE c \in S : \A e \in S : c = e \/ Less(c, e)

RECURSIVE SortedSeq(_)
SortedSeq(S) ==
    IF S = {} THEN <<>>
    ELSE <<MinOf(S)>> \o SortedSeq(S \ {MinOf(S)})

\* Life(mapping) with every listed coordinate stored as 1.
Life(coords) == [j \in 1..Len(coords) |-> Entry(coords[j], 1)]

\* The small patterns: at most MaxCells cells of the 3x3 box around (0, 0).
Box == ((-1)..1) \X ((-1)..1)

BoxPatterns == {S \in SUBSET Box : Cardinality(S) <= MaxCells}

Blinker == {<<1, 0>>, <<2, 0>>, <<3, 0>>}

BlinkerTurned == {<<2, -1>>, <<2, 0>>, <<2, 1>>}

Row5 == {<<0, 0>>, <<1, 0>>, <<2, 0>>, <<3, 0>>, <<4, 0>>}

FarPair == {<<-3, -2>>, <<4, 3>>}

Seeds == BoxPatterns \cup {Blinker, Row5, FarPair}

\* The literal of loop(), in its written order.
RPentomino == <<<<25, 15>>, <<26, 15>>, <<25, 16>>, <<24, 16>>, <<25, 17>>>>

\* ----------------------------------------------------------------- loop
\* ord(ch) for the characters loop() compares the key with.
Ord(ch) ==
    CASE ch = "h" -> 104
      [] ch = "j" -> 106
      [] ch = "k" -> 107
      [] ch = "l" -> 108
      [] ch = "q" -> 113
      [] ch = "x" -> 120

\* What screen.getch() returns with nodelay(True) when no key is waiting.
NoInput == -1

\* The values of getch() that are tried: the five keys of loop(), another
\* key, and no input.
KeyCodes == {Ord("h"), Ord("j"), Ord("k"), Ord("l"), Ord("q"), Ord("x"),
             NoInput}

\* An if-chain with h and l exchanged.
AdjustXSwapped(mv, ax) ==
    IF mv = Ord("h") THEN ax + 1
    ELSE IF mv = Ord("l") THEN ax - 1
    ELSE ax

\* adjust_x after the if-chain on move.
AdjustX(mv, ax) ==
    IF mv = Ord("h") THEN ax + (-1)
    ELSE IF mv = Ord("l") THEN ax + 1
    ELSE ax

\* adjust_y after the if-chain on move.
AdjustY(mv, ay) ==
    IF mv = Ord("h") \/ mv = Ord("l") THEN ay
    ELSE IF mv = Ord("k") THEN ay + (-1)
    ELSE IF mv = Ord("j") THEN ay + 1
    ELSE ay

\* A chain in which q is one more ignored key.
AfterKeyNoQuit(mv) == "advance"

\* A chain in which a frame that read a key does not advance the board.
AfterKeySkips(mv) ==
    IF mv = Ord("q") THEN "exited"
    ELSE IF mv = NoInput THEN "advance"
    ELSE "size"

\* Where the frame goes after the if-chain: exit(0) on q, otherwise on to
\* screen.clear() and game.play_game().
AfterKey(mv) ==
    IF mv = Ord("h") \/ mv = Ord("l") \/ mv = Ord("k") \/ mv = Ord("j")
    THEN "advance"
    ELSE IF mv = Ord("q") THEN "exited"
    ELSE "advance"

\* A visibility test that includes the edges of the rectangle.
VisibleInclusive(x, y, ax, ay, my, mx) ==
    /\ (0 + ax) <= x /\ x <= (mx + ax)
    /\ (0 + ay) <= y /\ y <= (my + ay)

\* visible_x and visible_y.
Visible(x, y, ax, ay, my, mx) ==
    /\ (0 + ax) < x /\ x < (mx + ax)
    /\ (0 + ay) < y /\ y < (my + ay)

\* The (row, column) handed to screen.addstr.
ScreenPos(x, y, ax, ay) == <<y - ay, x - ax>>

\* A draw whose curses.error is not caught.
DrawResultFatal(ok) == IF ok THEN "drawn" ELSE "crashed"

\* try: screen.addstr(...) except curses.error: pass
DrawResult(ok) == IF ok THEN "drawn" ELSE "ignored"

\* The terminal sizes (max_y, max_x) that getmaxyx() is tried with: one
\* that holds the whole seed and one that cuts through it.
Sizes == {<<24, 80>>, <<17, 26>>}

\* ---------------------------------------------------------------- state
VARIABLES
    board,   \* the Life dictionary
    pc,      \* position inside play_game: idle, check, dead, live, raised
    cells,   \* the list returned by queue_cells()
    i,       \* index of the next element of the list being iterated
    live,    \* play_game's local list live
    dead,    \* play_game's local list dead
    gen,     \* number of completed play_game() calls
    seed,    \* the coordinates the board was created with
    start,   \* the dictionary as it was when the current call began
    evals,   \* check_cell calls made in the current call
    frame,   \* position inside loop(): none (no loop), input, advance, size,
             \* render, exited, crashed
    move,    \* the last value of screen.getch()
    adjust_x,
    adjust_y,
    max_y,
    max_x,
    ri,      \* index of the next key of game.keys() in the render loop
    attempts, \* the (row, column) of every addstr call of the frame
    screen,  \* the (row, column) positions that show a marker
    frames,  \* number of completed frames
    reads,   \* how many times each key code was read
    failed,  \* addstr calls of the frame that raised curses.error
    view,    \* board and offset as they were when the render loop began
    exitcode \* <<>> while the process runs, <<code>> after exit(code)

loopvars == <<frame, move, adjust_x, adjust_y, max_y, max_x, ri, attempts,
              screen, frames, reads, failed, view, exitcode>>

vars == <<board, pc, cells, i, live, dead, gen, seed, start, evals,
          frame, move, adjust_x, adjust_y, max_y, max_x, ri, attempts,
          screen, frames, reads, failed, view, exitcode>>

GenLimit == IF seed = RPentomino THEN MaxGenPentomino ELSE MaxGen

NewLife(coords) ==
    /\ board = Life(coords)
    /\ seed = coords
    /\ pc = "idle"
    /\ cells = <<>>
    /\ i = 1
    /\ live = <<>>
    /\ dead = <<>>
    /\ gen = 0
    /\ start = Life(coords)
    /\ evals = 0

\* The state of loop() before its first frame; f is the position.
LoopAt(f) ==
    /\ frame = f
    /\ move = NoInput
    /\ adjust_x = 0
    /\ adjust_y = 0
    /\ max_y = 0
    /\ max_x = 0
    /\ ri = 1
    /\ attempts = <<>>
    /\ screen = {}
    /\ frames = 0
    /\ reads = [c \in KeyCodes |-> 0]
    /\ failed = 0
    /\ view = [board |-> <<>>, adjust_x |-> 0, adjust_y |-> 0]
    /\ exitcode = <<>>

\* A board on its own, outside loop().
InitWith(coords) == NewLife(coords) /\ LoopAt("none")

\* loop() after game = Life({...}), adjust_x, adjust_y = 0, 0 and nodelay.
InitLoop == NewLife(RPentomino) /\ LoopAt("input")

Init == \E S \in Seeds : InitWith(SortedSeq(S))

InitPentomino == InitWith(RPentomino)

\* live, dead = [], [] ; the iterator over self.queue_cells() is created.
PlayGameBegin ==
    /\ pc = "idle"
    /\ frame \in {"none", "advance"}
    /\ gen < GenLimit
    /\ pc' = "check"
    /\ cells' = QueueCells(board)
    /\ i' = 1
    /\ live' = <<>>
    /\ dead' = <<>>
    /\ start' = board
    /\ evals' = 0
    /\ UNCHANGED <<board, gen, seed>>
    /\ UNCHANGED loopvars

\* One iteration of the first loop: check_cell and the two +=.
CheckCellStep ==
    /\ pc = "check"
    /\ i <= Len(cells)
    /\ LET r == CheckOne([live |-> live, dead |-> dead, dict |-> board],
                         cells[i])
       IN  /\ board' = r.dict
           /\ live' = r.live
           /\ dead' = r.dead
    /\ i' = i + 1
    /\ evals' = evals + 1
    /\ UNCHANGED <<pc, cells, gen, seed, start>>
    /\ UNCHANGED loopvars

\* The first loop is exhausted; the loop over dead begins.
CheckLoopEnd ==
    /\ pc = "check"
    /\ i > Len(cells)
    /\ pc' = "dead"
    /\ i' = 1
    /\ UNCHANGED <<board, cells, live, dead, gen, seed, start, evals>>
    /\ UNCHANGED loopvars

\* One iteration of the loop over dead; an uncaught KeyError ends the call.
DeadStep ==
    /\ pc = "dead"
    /\ i <= Len(dead)
    /\ IF DeadRaises(board, dead[i])
       THEN pc' = "raised" /\ UNCHANGED <<board, i>>
       ELSE board' = ApplyDead(board, dead[i]) /\ i' = i + 1 /\ pc' = pc
    /\ UNCHANGED <<cells, live, dead, gen, seed, start, evals>>
    /\ UNCHANGED loopvars

DeadLoopEnd ==
    /\ pc = "dead"
    /\ i > Len(dead)
    /\ pc' = "live"
    /\ i' = 1
    /\ UNCHANGED <<board, cells, live, dead, gen, seed, start, evals>>
    /\ UNCHANGED loopvars

LiveStep ==
    /\ pc = "live"
    /\ i <= Len(live)
    /\ board' = ApplyLive(board, live[i])
    /\ i' = i + 1
    /\ UNCHANGED <<pc, cells, live, dead, gen, seed, start, evals>>
    /\ UNCHANGED loopvars

PlayGameReturn ==
    /\ pc = "live"
    /\ i > Len(live)
    /\ pc' = "idle"
    /\ i' = 1
    /\ gen' = gen + 1
    /\ frame' = IF frame = "advance" THEN "size" ELSE frame
    /\ UNCHANGED <<board, cells, live, dead, seed, start, evals>>
    /\ UNCHANGED <<move, adjust_x, adjust_y, max_y, max_x, ri, attempts,
                   screen, frames, reads, failed, view, exitcode>>

Next ==
    \/ PlayGameBegin
    \/ CheckCellStep
    \/ CheckLoopEnd
    \/ DeadStep
    \/ DeadLoopEnd
    \/ LiveStep
    \/ PlayGameReturn

enginevars == <<board, pc, cells, i, live, dead, gen, seed, start, evals>>

\* move = screen.getch(), the if-chain on move, and screen.clear().
ReadKey ==
    /\ frame = "input"
    /\ frames < MaxFrames
    /\ \E mv \in KeyCodes :
           /\ move' = mv
           /\ reads' = [reads EXCEPT ![mv] = @ + 1]
           /\ adjust_x' = AdjustX(mv, adjust_x)
           /\ adjust_y' = AdjustY(mv, adjust_y)
           /\ frame' = AfterKey(mv)
           /\ IF AfterKey(mv) = "exited"
              THEN /\ exitcode' = <<0>>
                   /\ UNCHANGED <<screen, attempts, failed>>
              ELSE /\ exitcode' = exitcode
                   /\ screen' = {}
                   /\ attempts' = <<>>
                   /\ failed' = 0
    /\ UNCHANGED <<max_y, max_x, ri, frames, view>>
    /\ UNCHANGED enginevars

\* max_y, max_x = screen.getmaxyx() ; the iterator over game.keys() is
\* created.
GetMaxYX ==
    /\ frame = "size"
    /\ \E sz \in Sizes : max_y' = sz[1] /\ max_x' = sz[2]
    /\ ri' = 1
    /\ view' = [board |-> board, adjust_x |-> adjust_x, adjust_y |-> adjust_y]
    /\ frame' = "render"
    /\ UNCHANGED <<move, adjust_x, adjust_y, attempts, screen, frames, reads,
                   failed, exitcode>>
    /\ UNCHANGED enginevars

\* One iteration of "for x, y in game.keys()".  Whether addstr raises
\* curses.error is the terminal's choice.
RenderStep ==
    /\ frame = "render"
    /\ ri <= Len(board)
    /\ LET x == board[ri].k[1]
           y == board[ri].k[2]
           pos == ScreenPos(x, y, adjust_x, adjust_y)
       IN  IF Visible(x, y, adjust_x, adjust_y, max_y, max_x)
           THEN \E ok \in IF failed < MaxFail THEN BOOLEAN ELSE {TRUE} :
                    /\ attempts' = Append(attempts, pos)
                    /\ screen' = IF DrawResult(ok) = "drawn"
                                 THEN screen \cup {pos} ELSE screen
                    /\ failed' = IF ok THEN failed ELSE failed + 1
                    /\ IF DrawResult(ok) = "crashed"
                       THEN frame' = "crashed" /\ ri' = ri
                       ELSE frame' = frame /\ ri' = ri + 1
           ELSE /\ ri' = ri + 1
                /\ UNCHANGED <<attempts, screen, failed, frame>>
    /\ UNCHANGED <<move, adjust_x, adjust_y, max_y, max_x, frames, reads,
                   view, exitcode>>
    /\ UNCHANGED enginevars

\* curses.curs_set(0) ; screen.refresh() ; time.sleep(.1)
RenderEnd ==
    /\ frame = "render"
    /\ ri > Len(board)
    /\ frame' = "input"
    /\ frames' = frames + 1
    /\ UNCHANGED <<move, adjust_x, adjust_y, max_y, max_x, ri, attempts,
                   screen, reads, failed, view, exitcode>>
    /\ UNCHANGED enginevars

NextLoop ==
    \/ ReadKey
    \/ PlayGameBegin
    \/ CheckCellStep
    \/ CheckLoopEnd
    \/ DeadStep
    \/ DeadLoopEnd
    \/ LiveStep
    \/ PlayGameReturn
    \/ GetMaxYX
    \/ RenderStep
    \/ RenderEnd

Spec == Init /\ [][Next]_vars

SpecLoop == InitLoop /\ [][NextLoop]_vars

SpecPentomino == InitPentomino /\ [][Next]_vars

\* ------------------------------------------------------------ vocabulary
Stepped == pc = "idle" /\ gen >= 1

SeedSet == {seed[j] : j \in 1..Len(seed)}

ToSet(s) == {s[j] : j \in 1..Len(s)}

TypeOK ==
    /\ pc \in {"idle", "check", "dead", "live", "raised"}
    /\ gen \in 0..MaxGenPentomino + 1
    /\ i \in 1..(Len(cells) + 1)
    /\ Stepped => board = PlayGame(start)
    /\ frame \in {"none", "input", "advance", "size", "render", "exited",
                  "crashed"}
    /\ move \in KeyCodes
    /\ frames \in 0..MaxFrames
    /\ failed \in 0..MaxFail

\* ----------------------------------------------- textbook Life on sets
Neighbours(c) ==
    {<<c[1] + dx, c[2] + dy>> : dx \in -1..1, dy \in -1..1} \ {c}

LiveNeighbours(S, c) == Cardinality(Neighbours(c) \cap S)

Reach(S) == S \cup UNION {Neighbours(c) : c \in S}

\* The next generation by the neighbour-count rule (self excluded).
Conway(S) ==
    {c \in Reach(Reach(S)) :
        IF c \in S THEN LiveNeighbours(S, c) \in {2, 3}
                   ELSE LiveNeighbours(S, c) = 3}

Square(c) ==
    {c, <<c[1] + 1, c[2]>>, <<c[1], c[2] + 1>>, <<c[1] + 1, c[2] + 1>>}

IsBlock(S) == \E c \in S : S = Square(c)

Chebyshev(a, b) ==
    LET ax == IF a[1] >= b[1] THEN a[1] - b[1] ELSE b[1] - a[1]
        ay == IF a[2] >= b[2] THEN a[2] - b[2] ELSE b[2] - a[2]
    IN  IF ax >= ay THEN ax ELSE ay

Row5Next ==
    {<<1, -1>>, <<1, 0>>, <<1, 1>>, <<2, -1>>, <<2, 0>>, <<2, 1>>,
     <<3, -1>>, <<3, 0>>, <<3, 1>>}

\* ---------------------------------------------------------------- claims

\* C1: after one play_game() on a board whose stored values are all 1, a
\* coordinate is alive iff it was alive with 2 or 3 live neighbours or dead
\* with exactly 3 live neighbours (self excluded): the block-total encoding
\* of check_cell gives the textbook next generation.
C1_StandardLife ==
    Stepped => /\ LiveSet(board) = Conway(LiveSet(start))
               /\ KeySet(board) = LiveSet(board)

\* A step in which a cell was born, a cell died and a cell survived.
C1_Witness ==
    /\ Stepped
    /\ LiveSet(board) \ LiveSet(start) # {}
    /\ LiveSet(start) \ LiveSet(board) # {}
    /\ LiveSet(start) \cap LiveSet(board) # {}

\* C2: inside one play_game() the dictionary stays exactly as it was at the
\* start of the call while the candidates are evaluated (absent reads store
\* nothing), the first mutation comes only after the last evaluation, and a
\* row of 5 live cells steps to the simultaneous-update result.
C2_Simultaneous ==
    /\ pc = "check" => board = start
    /\ pc \in {"dead", "live"} => evals = Len(cells)
    /\ board # start => (pc # "check" /\ evals = Len(cells))
    /\ (SeedSet = Row5 /\ Stepped /\ gen = 1) => LiveSet(board) = Row5Next

C2_Witness == SeedSet = Row5 /\ Stepped /\ gen = 1 /\ board # start

\* C3: a 2x2 block, wherever it lies, is the live set after every number of
\* play_game() calls.
C3_Stasis ==
    (IsBlock(SeedSet) /\ pc = "idle") =>
        (LiveSet(board) = SeedSet /\ KeySet(board) = SeedSet)

C3_Witness ==
    /\ IsBlock(SeedSet)
    /\ Stepped
    /\ gen >= 2
    /\ \E c \in SeedSet : c[1] < 0 /\ c[2] < 0

\* C4: the blinker (1,0),(2,0),(3,0) is (2,-1),(2,0),(2,1) after an odd
\* number of play_game() calls and the original three cells after an even
\* number.
C4_Oscillation ==
    (SeedSet = Blinker /\ pc = "idle") =>
        /\ LiveSet(board) = IF gen % 2 = 0 THEN Blinker ELSE BlinkerTurned
        /\ KeySet(board) = LiveSet(board)

C4_Witness == SeedSet = Blinker /\ Stepped /\ gen = 2

\* C5: a single live cell, or two live cells that are not 8-adjacent, leave
\* an empty dictionary after one play_game().
Isolated(S) ==
    \/ Cardinality(S) = 1
    \/ /\ Cardinality(S) = 2
       /\ \A a \in S : \A b \in S : a # b => Chebyshev(a, b) >= 2

C5_Extinction == (Isolated(SeedSet) /\ Stepped) => board = <<>>

\* Two cells at distance 2, which share dead neighbours, after one call.
C5_Witness ==
    /\ Stepped
    /\ gen = 1
    /\ Cardinality(SeedSet) = 2
    /\ \A a \in SeedSet : \A b \in SeedSet : a # b => Chebyshev(a, b) = 2
    /\ board = <<>>

\* C6: three cells of a 2x2 square become exactly that square after one
\* play_game(): the fourth cell is born and nothing else is.
IsLShape(S) ==
    \E c \in Reach(S) : \E e \in Square(c) : S = Square(c) \ {e}

SquareOf(S) == Square(CHOOSE c \in Reach(S) : S \subseteq Square(c))

C6_Birth ==
    (IsLShape(SeedSet) /\ Stepped /\ gen = 1) =>
        (LiveSet(board) = SquareOf(SeedSet) /\ KeySet(board) = LiveSet(board))

C6_Witness ==
    /\ IsLShape(SeedSet)
    /\ Stepped
    /\ gen = 1
    /\ Cardinality(LiveSet(board) \ SeedSet) = 1

\* C7: play_game() on a pattern shifted by (dx, dy), negative offsets
\* included, leaves the live set that play_game() on the pattern leaves,
\* shifted by (dx, dy).
\* The vectors of length 0..MaxShift along the 8 directions.
Shifts ==
    {<<dx * n, dy * n>> : dx \in -1..1, dy \in -1..1, n \in 0..MaxShift}

ShiftCoord(c, v) == <<c[1] + v[1], c[2] + v[2]>>

ShiftSet(S, v) == {ShiftCoord(c, v) : c \in S}

ShiftDict(d, v) ==
    [j \in 1..Len(d) |-> Entry(ShiftCoord(d[j].k, v), d[j].v)]

C7_Translation ==
    (Stepped /\ gen = 1) =>
        \A v \in Shifts :
            LiveSet(PlayGame(ShiftDict(start, v))) = ShiftSet(LiveSet(board), v)

\* A step with a birth and a survivor, on a pattern whose shifted copies
\* reach negative coordinates.
C7_Witness ==
    /\ Stepped
    /\ gen = 1
    /\ LiveSet(board) \ LiveSet(start) # {}
    /\ LiveSet(board) \cap LiveSet(start) # {}
    /\ \E c \in KeySet(ShiftDict(start, <<-MaxShift, -MaxShift>>)) :
           c[1] < 0 /\ c[2] < 0

\* C8 (as stated): after any number of play_game() calls the number of
\* stored coordinates is at most 9 times the size of the initial seed.
C8_WholeRunBound ==
    pc = "idle" => Cardinality(KeySet(board)) <= 9 * Len(seed)

\* C8 (amended): after each play_game() call the number of stored
\* coordinates is at most 9 times the number of cells alive when that call
\* began.
C8_PerCallBound ==
    Stepped => Cardinality(KeySet(board)) <= 9 * Cardinality(LiveSet(start))

\* The r-pentomino has outgrown 9 times its seed.
C8_Witness ==
    /\ Stepped
    /\ seed = RPentomino
    /\ Cardinality(KeySet(board)) > 9 * Len(seed)

\* C9: a play_game() call on m live cells makes exactly 9*m check_cell
\* evaluations, every cell alive afterwards is one of the evaluated
\* candidates, and at most 9*m coordinates are stored afterwards.
C9_PerGeneration ==
    /\ pc # "idle" => Len(cells) = 9 * Cardinality(LiveSet(start))
    /\ pc \in {"dead", "live"} => evals = 9 * Cardinality(LiveSet(start))
    /\ Stepped => /\ evals = 9 * Cardinality(LiveSet(start))
                  /\ LiveSet(board) \subseteq ToSet(cells)
                  /\ Len(board) <= 9 * Cardinality(LiveSet(start))

C9_Witness ==
    /\ Stepped
    /\ evals >= 27
    /\ LiveSet(board) \ LiveSet(start) # {}

\* C10: in every state, between calls and inside play_game(), every stored
\* key has value 1 and is stored once: keys() is the set of live cells.
C10_OnlyLiveStored ==
    /\ \A j \in 1..Len(board) : board[j].v = 1
    /\ \A j \in 1..Len(board) : \A n \in 1..Len(board) :
           board[j].k = board[n].k => j = n
    /\ KeySet(board) = LiveSet(board)

\* Inside a call, after deaths were applied and while births are.
C10_Witness ==
    /\ pc = "live"
    /\ i > 1
    /\ KeySet(start) \ KeySet(board) # {}
    /\ KeySet(board) \ KeySet(start) # {}

\* C15 (as stated): check_cell lists (x, y) for death only when (x, y) is
\* alive and its block total is below 3 or above 4.
BlockTotal(S, c) == Cardinality((Neighbours(c) \cup {c}) \cap S)

C15_DeathOnlyAlive ==
    \A j \in 1..Len(dead) :
        /\ dead[j] \in LiveSet(start)
        /\ (BlockTotal(LiveSet(start), dead[j]) < 3
            \/ BlockTotal(LiveSet(start), dead[j]) > 4)

\* What check_cell lists instead: (x, y) exactly when its block total is
\* below 3, or above 4 with (x, y) alive; a dead coordinate with a block
\* total below 3 is listed as well.
Listed(S, c) ==
    BlockTotal(S, c) < 3 \/ (BlockTotal(S, c) > 4 /\ c \in S)

DeathListIsListed ==
    /\ \A j \in 1..Len(dead) : Listed(LiveSet(start), dead[j])
    /\ pc \in {"dead", "live"} =>
           ToSet(dead) = {c \in ToSet(cells) : Listed(LiveSet(start), c)}

\* The death list holds a dead coordinate and a crowded live one.
DeathListMixed ==
    /\ pc = "dead"
    /\ \E j \in 1..Len(dead) : dead[j] \notin LiveSet(start)
    /\ \E j \in 1..Len(dead) :
           dead[j] \in LiveSet(start)
           /\ BlockTotal(LiveSet(start), dead[j]) > 4

\* C16 (as stated): the birth and death lists are disjoint, every birth
\* target was dead and every death target alive when the call began, and
\* deaths before births give the board that births before deaths give.
BirthsFirst(d, births, deaths) ==
    DeadAll(LiveAll(d, births, 1, Len(births)), deaths, 1, Len(deaths))

C16_DisjointAliveDeaths ==
    Stepped =>
        /\ ToSet(live) \cap ToSet(dead) = {}
        /\ ToSet(live) \cap LiveSet(start) = {}
        /\ ToSet(dead) \subseteq LiveSet(start)
        /\ board = BirthsFirst(start, live, dead)

\* What holds instead: the lists are disjoint, every birth target was dead,
\* every death target was alive or was a dead coordinate with block total
\* below 3 (which the apply phase skips), and the two orders give the same
\* board.
DisjointAndCommute ==
    Stepped =>
        /\ ToSet(live) \cap ToSet(dead) = {}
        /\ ToSet(live) \cap LiveSet(start) = {}
        /\ \A c \in ToSet(dead) :
               c \in LiveSet(start) \/ BlockTotal(LiveSet(start), c) < 3
        /\ board = BirthsFirst(start, live, dead)

\* A call with births, with deaths of live cells and with listed dead cells.
BirthsAndBothDeaths ==
    /\ Stepped
    /\ live # <<>>
    /\ ToSet(dead) \cap LiveSet(start) # {}
    /\ ToSet(dead) \ LiveSet(start) # {}

\* C17: queue_cells() returns exactly the live coordinates and their
\* 8-connected neighbours, and its duplicates do not change the result of
\* the step.
Distinct(cs) ==
    LET keep == SelectSeq([j \in 1..Len(cs) |-> j],
                          LAMBDA j : \A n \in 1..(j - 1) : cs[n] # cs[j])
    IN  [m \in 1..Len(keep) |-> cs[keep[m]]]

PlayGameOver(d, q) ==
    LET t == CheckAll([live |-> <<>>, dead |-> <<>>, dict |-> d],
                      q, 1, Len(q))
        killed == DeadAll(t.dict, t.dead, 1, Len(t.dead))
    IN  LiveAll(killed, t.live, 1, Len(t.live))

C17_Candidates ==
    /\ pc # "idle" => ToSet(cells) = Reach(KeySet(start))
    /\ Stepped => /\ ToSet(cells) = Reach(KeySet(start))
                  /\ LiveSet(PlayGameOver(start, Distinct(cells)))
                         = LiveSet(board)

\* A completed call whose queue held duplicates and which changed the board.
C17_Witness ==
    /\ Stepped
    /\ Len(Distinct(cells)) < Len(cells)
    /\ LiveSet(board) # LiveSet(start)
    /\ LiveSet(board) # {}

\* C18: play_game() never raises: the loop over dead, whose list holds
\* duplicates and coordinates that are not stored, never deletes an absent
\* key, from any board, the empty one included.
C18_NoKeyError ==
    /\ pc # "raised"
    /\ (pc = "dead" /\ i <= Len(dead)) => ~DeadRaises(board, dead[i])
    /\ (seed = <<>> /\ pc = "idle") => board = <<>>

\* The loop over dead has finished on a list with a duplicate of a deleted
\* coordinate and with a coordinate that was never stored.
C18_Witness ==
    /\ pc = "live"
    /\ \E j \in 1..Len(dead) : \E n \in 1..Len(dead) :
           j # n /\ dead[j] = dead[n] /\ dead[j] \in KeySet(start)
    /\ \E j \in 1..Len(dead) : dead[j] \notin KeySet(start)

\* ------------------------------------------------------ loop vocabulary
Times(ch) == reads[Ord(ch)]

\* The live set k generations after S, by the textbook rule.
RECURSIVE Generation(_, _)
Generation(S, k) == IF k = 0 THEN S ELSE Conway(Generation(S, k - 1))

\* The frame's render loop is under way or has just finished.
Rendered == frame = "render" \/ (frame = "input" /\ frames >= 1)

\* The stored coordinates among the first n keys that lie strictly inside
\* the viewport.
InView(n) ==
    {c \in {board[j].k : j \in 1..n} :
        /\ adjust_x < c[1] /\ c[1] < max_x + adjust_x
        /\ adjust_y < c[2] /\ c[2] < max_y + adjust_y}

RowCol(S) == {<<c[2] - adjust_y, c[1] - adjust_x>> : c \in S}

\* C11: the viewport offset moves by (-1,0) on h, (+1,0) on l, (0,-1) on k,
\* (0,+1) on j and not at all on any other code, so it always equals the sum
\* of the deltas of the keys read so far.
C11_Offset ==
    /\ adjust_x = Times("l") - Times("h")
    /\ adjust_y = Times("j") - Times("k")

\* h, j and two codes without a delta have been read.
C11_Witness ==
    /\ Times("h") = 1
    /\ Times("j") = 1
    /\ reads[NoInput] + Times("x") = 1
    /\ adjust_x = -1
    /\ adjust_y = 1

\* C12: a frame resolves its input, then advances the board by one whole
\* generation, then renders: the board changes only between the input and
\* the render, and the k-th render shows generation k of the seed.
C12_FrameOrder ==
    /\ pc # "idle" => frame = "advance"
    /\ frame \in {"input", "advance", "exited"} => gen = frames
    /\ frame \in {"size", "render"} => (pc = "idle" /\ gen = frames + 1)
    /\ frame = "size" => LiveSet(board) = Generation(SeedSet, frames + 1)
    /\ frame = "render" => board = view.board

\* The third render, under way.
C12_Witness == frame = "render" /\ frames = 2 /\ ri > 1

\* C13: reading q ends the process with exit code 0 in that frame, before
\* the board is advanced or anything is drawn; no other code ends it.
C13_Quit ==
    /\ (move = Ord("q")) <=> (frame = "exited")
    /\ (frame = "exited") <=> (exitcode = <<0>>)
    /\ frame # "exited" => exitcode = <<>>
    /\ frame = "exited" =>
           /\ pc = "idle"
           /\ gen = frames
           /\ frames = 0 => (board = Life(seed) /\ attempts = <<>>)
           /\ frames >= 1 =>
                  /\ board = view.board
                  /\ ri = Len(board) + 1
                  /\ Len(attempts) = Cardinality(InView(Len(board)))

\* q was read in the third frame.
C13_Witness == frame = "exited" /\ frames = 2 /\ Times("q") = 1

\* C14: addstr is called for exactly the live coordinates strictly inside
\* the viewport, at row y - adjust_y and column x - adjust_x, so every call
\* has 0 < row < max_y and 0 < column < max_x, and no marker lies elsewhere.
C14_Drawn ==
    /\ \A j \in 1..Len(attempts) :
           /\ 0 < attempts[j][1] /\ attempts[j][1] < max_y
           /\ 0 < attempts[j][2] /\ attempts[j][2] < max_x
    /\ frame = "render" =>
           /\ ToSet(attempts) = RowCol(InView(ri - 1))
           /\ Len(attempts) = Cardinality(InView(ri - 1))
    /\ (frame = "input" /\ frames >= 1) =>
           /\ ToSet(attempts) = RowCol(InView(Len(board)))
           /\ Len(attempts) = Cardinality(InView(Len(board)))
    /\ Rendered =>
           /\ screen \subseteq ToSet(attempts)
           /\ failed = 0 => screen = ToSet(attempts)

\* A finished frame, with a moved viewport, that drew some live cells and
\* left others out.
C14_Witness ==
    /\ frame = "input"
    /\ frames >= 1
    /\ adjust_x # 0
    /\ attempts # <<>>
    /\ failed = 0
    /\ Len(attempts) < Len(board)

\* C19: an addstr that raises curses.error is skipped: the render loop goes
\* on over the remaining keys, the frame completes, and board and offset
\* stay as they were when the render began.
C19_Swallowed ==
    /\ frame # "crashed"
    /\ Rendered =>
           /\ pc = "idle"
           /\ board = view.board
           /\ adjust_x = view.adjust_x
           /\ adjust_y = view.adjust_y
           /\ Len(attempts) = Cardinality(screen) + failed
    /\ (frame = "input" /\ frames >= 1) => ri = Len(board) + 1

\* The frame after one in which the first addstr failed and a later one
\* drew its marker.
C19_Witness ==
    /\ frame = "input"
    /\ frames >= 1
    /\ failed >= 1
    /\ Len(attempts) >= 2
    /\ attempts[1] \notin screen
    /\ attempts[Len(attempts)] \in screen

\* C20: the board between frames is a function of the number of frames
\* alone: whatever codes were read and whatever the terminal size was,
\* after k frames it holds generation k of the seed.
C20_InputIndependent ==
    (frame \in {"input", "exited"}) =>
        /\ pc = "idle"
        /\ LiveSet(board) = Generation(SeedSet, frames)
        /\ KeySet(board) = LiveSet(board)

\* Two frames have passed in which keys were read.
C20_Witness ==
    /\ frame = "input"
    /\ frames = 2
    /\ reads[NoInput] = 0
    /\ LiveSet(board) # SeedSet
====
